---- MODULE Spec2Model ----
(***************************************************************************)
(* Model of the hygieia wastewater ingestion pipeline: the CSV row parser  *)
(* (csv_data.rs), the sample normalizer and the deduplicating SQLite store *)
(* (db.rs) and the run of main (main.rs), for two processes that share one *)
(* database file.                                                          *)
(***************************************************************************)
EXTENDS Integers, Sequences, FiniteSets, TLC

VARIABLES
    db,            \* committed rows of table wastewater_samples, in rowid order
    pc,            \* per process: position in main
    result,        \* per process: how the last run of main ended
    lock,          \* per connection: SQLite file lock held
    pending,       \* per connection: rows written by the open transaction
    cur,           \* per process: the sample last handed to insert_wastewater_sample
                   \* (kept while the loop stands after a skip, until the next row)
    rows_read,     \* per process: data rows pulled from the CSV reader
    total_sample,  \* db.rs:130
    errors,        \* db.rs:131
    skip,          \* db.rs:132
    outcomes,      \* per process: what happened to each data row of this run
    trend,         \* per process: the results of the trend queries, one per pair
    runs,          \* runs of main started so far
    everTrue,      \* history: keys for which insert_wastewater_sample returned true
    dbAtBegin,     \* history: the table when the batch began
    s,             \* text handed to deserialize_pdt_datetime
    parsed         \* its result

vars == <<db, pc, result, lock, pending, cur, rows_read, total_sample,
          errors, skip, outcomes, trend, runs, everTrue, dbAtBegin, s, parsed>>

storeVars == <<db, pc, result, lock, pending, cur, rows_read, total_sample,
               errors, skip, outcomes, trend, runs, everTrue, dbAtBegin>>

pdtVars == <<s, parsed>>

----------------------------------------------------------------------------
(* Bounds *)

MaxBatch == 3
MaxClock == 1
MaxRuns == 2
MaxLocal == 119

Procs == {1, 2}

----------------------------------------------------------------------------
(* US/Pacific, in half hours.  Instants are half hours of UTC, civil times  *)
(* are half hours of the local calendar, both counted from the same origin. *)

PstOffset == -16
PdtOffset == -14
SpringForward == 36
FallBack == 90

\* The three timespans of the zone: standard, daylight, standard.
Timespans ==
    << [utc_start |-> -1000, utc_end |-> SpringForward, offset |-> PstOffset],
       [utc_start |-> SpringForward, utc_end |-> FallBack, offset |-> PdtOffset],
       [utc_start |-> FallBack, utc_end |-> 1000, offset |-> PstOffset] >>

\* The civil times a timespan covers.
LocalSpanContains(i, local) ==
    /\ Timespans[i].utc_start + Timespans[i].offset <= local
    /\ local < Timespans[i].utc_end + Timespans[i].offset

\* NaiveDateTime::and_local_timezone(US::Pacific): the instants of a civil
\* time, earliest timespan first.
AndLocalTimezone(local) ==
    LET hits == SelectSeq(<<1, 2, 3>>, LAMBDA i : LocalSpanContains(i, local))
    IN  [i \in 1..Len(hits) |-> local - Timespans[hits[i]].offset]

\* The text of a field that matches no "%Y-%m-%d %H:%M:%S.%f".
NoText == [well_formed |-> FALSE, naive |-> 0]

\* Ok(date_time)
OkPdt(instant) == [ok |-> TRUE, instant |-> instant, error |-> "", text |-> NoText]

\* .map_err(D::Error::custom)?: parse_from_str failed; the error is chrono's
\* ParseError, which does not quote the input.
ErrPdt == [ok |-> FALSE, instant |-> -1, error |-> "parse", text |-> NoText]

\* Err(D::Error::custom(format!("Datetime {} is invalid for Pacific timezone.", s)))
ErrInvalidForPacific(text) ==
    [ok |-> FALSE, instant |-> -1, error |-> "invalid for Pacific timezone",
     text |-> text]

\* Variant: the earlier instant of a fold is taken (Ambiguous(earliest, _)).
DeserializeEarliest(text) ==
    IF ~text.well_formed THEN ErrPdt
    ELSE LET mapped_date_time == AndLocalTimezone(text.naive)
         IN  CASE Len(mapped_date_time) = 1 -> OkPdt(mapped_date_time[1])
               [] Len(mapped_date_time) = 2 -> OkPdt(mapped_date_time[1])
               [] OTHER -> ErrInvalidForPacific(text)

\* Variant: a skipped civil time is read with the offset in force before the
\* transition, which shifts it past the gap.
DeserializeGapShifted(text) ==
    IF ~text.well_formed THEN ErrPdt
    ELSE LET mapped_date_time == AndLocalTimezone(text.naive)
         IN  CASE Len(mapped_date_time) = 1 -> OkPdt(mapped_date_time[1])
               [] Len(mapped_date_time) = 2 -> OkPdt(mapped_date_time[2])
               [] OTHER -> OkPdt(text.naive - PstOffset)

\* deserialize_pdt_datetime
DeserializePdtDatetime(text) ==
    IF ~text.well_formed THEN ErrPdt
    ELSE LET mapped_date_time == AndLocalTimezone(text.naive)
         IN  CASE Len(mapped_date_time) = 1 -> OkPdt(mapped_date_time[1])
               [] Len(mapped_date_time) = 2 -> OkPdt(mapped_date_time[2])
               [] OTHER -> ErrInvalidForPacific(text)

\* The zone read forwards: the civil time the zone shows at an instant.
UtcToLocal(utc) ==
    LET i == CHOOSE j \in 1..Len(Timespans) :
                 Timespans[j].utc_start <= utc /\ utc < Timespans[j].utc_end
    IN  utc + Timespans[i].offset

\* The texts the parser is tried on; well_formed is FALSE for a text that
\* does not match "%Y-%m-%d %H:%M:%S.%f".
Texts == [well_formed : BOOLEAN, naive : 0..MaxLocal]

\* Nothing has been handed to the parser yet.
NotParsed == [ok |-> FALSE, instant |-> -2, error |-> "", text |-> NoText]

----------------------------------------------------------------------------
(* Rows *)

Counties == <<"Pierce", "King">>
Variants == <<"FLUAV", "FLUBV", "RSV", "sars-cov-2">>

\* The natural keys the inputs are drawn from: K1 and K2 differ in the date
\* only, K2 and K3 in the site only.
Keys ==
    { [sample_collection_date |-> 1, site_name |-> "A", county |-> "Pierce",
       pcr_pathogen_target |-> "RSV", pcr_gene_target |-> "N"],
      [sample_collection_date |-> 2, site_name |-> "A", county |-> "Pierce",
       pcr_pathogen_target |-> "RSV", pcr_gene_target |-> "N"],
      [sample_collection_date |-> 2, site_name |-> "B", county |-> "Pierce",
       pcr_pathogen_target |-> "RSV", pcr_gene_target |-> "N"] }

\* Texts of the "Date/Time Updated" column: a civil time in daylight time,
\* one in the fall-back fold and one in the spring-forward gap.
DaylightText == [well_formed |-> TRUE, naive |-> 50]
FoldText == [well_formed |-> TRUE, naive |-> 74]
GapText == [well_formed |-> TRUE, naive |-> 20]

\* One line of the CSV file.  well_formed is FALSE for a line serde cannot
\* decode (wrong field count, bad date, non-numeric concentration).  The
\* lines of the input: every key once, one key republished with another
\* concentration and an update time in the fold, one line that cannot be
\* decoded and one whose update time is in the gap.
RawRows ==
    [ well_formed : {TRUE}, key : Keys, conc : {1}, updated : {DaylightText} ]
    \cup { raw \in [ well_formed : BOOLEAN, key : Keys, conc : {3},
                     updated : {FoldText, GapText} ] :
               /\ raw.key.sample_collection_date = 2
               /\ raw.key.site_name = "A"
               /\ raw.well_formed \/ raw.updated = FoldText }

\* The lines two concurrent runs are fed: one key, in two versions, and one
\* other key.
SharedRawRows ==
    { raw \in RawRows :
        /\ raw.well_formed
        /\ raw.updated # GapText
        /\ raw.key.sample_collection_date = 2 }

\* WasteWaterCsvRow, as csv::Reader::into_deserialize yields it.
ParseRow(raw) ==
    LET d == DeserializePdtDatetime(raw.updated)
    IN  [ ok |-> raw.well_formed /\ d.ok,
          sample_collection_date |-> raw.key.sample_collection_date,
          site_name |-> raw.key.site_name,
          county |-> raw.key.county,
          pcr_pathogen_target |-> raw.key.pcr_pathogen_target,
          pcr_gene_target |-> raw.key.pcr_gene_target,
          normalized_pathogen_concentration |-> raw.conc,
          date_updated |-> d.instant ]

\* try_unix_timestamp
TryUnixTimestamp(clock) == [ok |-> clock >= 0, secs |-> clock]

\* impl TryFrom<WasteWaterCsvRow> for WasteWaterSample, on Ok
Sample(row, poll_timestamp) ==
    [ sample_collection_date |-> row.sample_collection_date,
      site_name |-> row.site_name,
      county |-> row.county,
      pcr_pathogen_target |-> row.pcr_pathogen_target,
      pcr_gene_target |-> row.pcr_gene_target,
      normalized_pathogen_concentration |-> row.normalized_pathogen_concentration,
      date_updated |-> row.date_updated,
      poll_timestamp |-> poll_timestamp ]

NoSample ==
    [ sample_collection_date |-> 0, site_name |-> "", county |-> "",
      pcr_pathogen_target |-> "", pcr_gene_target |-> "",
      normalized_pathogen_concentration |-> 0, date_updated |-> 0,
      poll_timestamp |-> 0 ]

\* The natural key of a sample.
KeyOf(r) ==
    << r.sample_collection_date, r.site_name, r.county,
       r.pcr_pathogen_target, r.pcr_gene_target >>

KeysOf(table) == { KeyOf(table[i]) : i \in 1..Len(table) }

\* Variant: the WHERE clause also compares the value columns.
SameSampleAllColumns(r, sample) ==
    /\ r.sample_collection_date = sample.sample_collection_date
    /\ r.site_name = sample.site_name
    /\ r.county = sample.county
    /\ r.pcr_pathogen_target = sample.pcr_pathogen_target
    /\ r.pcr_gene_target = sample.pcr_gene_target
    /\ r.normalized_pathogen_concentration = sample.normalized_pathogen_concentration
    /\ r.date_updated = sample.date_updated

\* SELECT_SAMPLE_SQL: the WHERE clause.
SameSample(r, sample) ==
    /\ r.sample_collection_date = sample.sample_collection_date
    /\ r.site_name = sample.site_name
    /\ r.county = sample.county
    /\ r.pcr_pathogen_target = sample.pcr_pathogen_target
    /\ r.pcr_gene_target = sample.pcr_gene_target

\* select_stmt.query_row(..).optional(): the rows the statement returns.
SelectSample(table, sample) ==
    SelectSeq(table, LAMBDA r : SameSample(r, sample))

----------------------------------------------------------------------------
(* SQLite: one database file in rollback-journal mode, one connection per   *)
(* process.  A transaction's writes stay in the connection until COMMIT.    *)

\* Variant: the lookup runs outside the transaction and misses its writes.
ViewCommittedOnly(c) == db

\* What the statements of connection c read.
View(c) == db \o pending[c]

\* Variant: the SELECT runs in autocommit and gives its read lock back.
LockAfterSelectReleased(held) == IF held = "reserved" THEN held ELSE "none"

\* The lock a connection holds once a SELECT of its transaction has run.
LockAfterSelect(held) == IF held = "none" THEN "shared" ELSE held

\* INSERT takes RESERVED, which one connection at a time can hold.
CanReserve(c) == \A d \in Procs \ {c} : lock[d] # "reserved"

\* COMMIT of a writer takes EXCLUSIVE, which needs every reader gone.
CanCommit(c) == lock[c] # "reserved" \/ \A d \in Procs \ {c} : lock[d] = "none"

\* Variant: a batch that met a conversion error is not committed.
CommittedUnlessErrors(c) == IF errors[c] > 0 THEN db ELSE db \o pending[c]

\* The table after the transaction of c ends with COMMIT.
Committed(c) == db \o pending[c]

\* Variant: the dropped transaction commits (DropBehavior::Commit).
RolledBackKeepsWrites(c) == db \o pending[c]

\* Variant: only the failing statement is undone (no enclosing transaction);
\* the writes before it stay.
RolledBackToLastWrite(c) == db \o SubSeq(pending[c], 1, Len(pending[c]) - 1)

\* The table after the transaction of c is dropped without commit
\* (rusqlite's DropBehavior::Rollback).
RolledBack(c) == db

\* Variant: the conversion errors are left out of the subtraction.
TotalInsertionsIgnoringErrors(c) == total_sample[c] - skip[c]

\* let total_insertions = total_sample - errors - skip;
TotalInsertions(c) == total_sample[c] - errors[c] - skip[c]

----------------------------------------------------------------------------
(* Trend query *)

\* WHERE county = ?1 AND pcr_pathogen_target = ?2
Matching(table, county, variant) ==
    SelectSeq(table, LAMBDA r : r.county = county /\ r.pcr_pathogen_target = variant)

\* Variant: the rows are numbered oldest first (ORDER BY .. ASC).
RankingsOldestFirst(m) ==
    { p \in [1..Len(m) -> 1..Len(m)] :
        /\ \A i, j \in 1..Len(m) : i # j => p[i] # p[j]
        /\ \A i, j \in 1..Len(m) :
             i < j => m[p[i]].sample_collection_date <= m[p[j]].sample_collection_date }

\* ROW_NUMBER() OVER (.. ORDER BY sample_collection_date DESC): the orders the
\* engine may number the rows in; rows of one date come in any order.
Rankings(m) ==
    { p \in [1..Len(m) -> 1..Len(m)] :
        /\ \A i, j \in 1..Len(m) : i # j => p[i] # p[j]
        /\ \A i, j \in 1..Len(m) :
             i < j => m[p[i]].sample_collection_date >= m[p[j]].sample_collection_date }

\* query_row found no row: Err(QueryReturnedNoRows).
NoRows ==
    [ found |-> FALSE, latest_value |-> 0, latest_date |-> 0,
      difference |-> <<>>, previous_date |-> <<>> ]

\* The row the query returns for one ranking.
TrendRow(m, p) ==
    [ found |-> TRUE,
      latest_value |-> m[p[1]].normalized_pathogen_concentration,
      latest_date |-> m[p[1]].sample_collection_date,
      difference |->
          IF Len(m) >= 2
          THEN << m[p[1]].normalized_pathogen_concentration
                  - m[p[2]].normalized_pathogen_concentration >>
          ELSE <<>>,
      previous_date |->
          IF Len(m) >= 2 THEN << m[p[2]].sample_collection_date >> ELSE <<>> ]

\* Variant: JOIN in place of LEFT JOIN, which drops a first row that has no
\* second.
TrendQueryInnerJoin(table, county, variant) ==
    LET m == Matching(table, county, variant)
    IN  IF Len(m) < 2 THEN {NoRows}
        ELSE { TrendRow(m, p) : p \in Rankings(m) }

\* The results db_conn.query_row(query, params![county, variant], ..) can give.
TrendQuery(table, county, variant) ==
    LET m == Matching(table, county, variant)
    IN  IF Len(m) = 0 THEN {NoRows}
        ELSE { TrendRow(m, p) : p \in Rankings(m) }

NumPairs == Len(Counties) * Len(Variants)

\* counties.iter().flat_map(|&county| variants.map(|variant| (county, variant)))
PairAt(i) ==
    << Counties[((i - 1) \div Len(Variants)) + 1],
       Variants[((i - 1) % Len(Variants)) + 1] >>

\* The vectors the first n queries of main can collect: .map(..).collect()
RECURSIVE TrendData(_, _)
TrendData(table, n) ==
    IF n = 0 THEN {<<>>}
    ELSE { Append(data, r) :
             data \in TrendData(table, n - 1),
             r \in TrendQuery(table, PairAt(n)[1], PairAt(n)[2]) }

----------------------------------------------------------------------------
(* The run of main, per process *)

\* What SystemTime::now() can read, in seconds since UNIX_EPOCH (negative:
\* before it).  The clock is the host's: between two reads it can move either
\* way.
Clock == -1..MaxClock

\* The clock of two runs that share a second.
SharedClock == {0}

InitStore ==
    /\ db = <<>>
    /\ pc = [c \in Procs |-> "idle"]
    /\ result = [c \in Procs |-> "none"]
    /\ lock = [c \in Procs |-> "none"]
    /\ pending = [c \in Procs |-> <<>>]
    /\ cur = [c \in Procs |-> NoSample]
    /\ rows_read = [c \in Procs |-> 0]
    /\ total_sample = [c \in Procs |-> 0]
    /\ errors = [c \in Procs |-> 0]
    /\ skip = [c \in Procs |-> 0]
    /\ outcomes = [c \in Procs |-> <<>>]
    /\ trend = [c \in Procs |-> <<>>]
    /\ runs = 0
    /\ everTrue = {}
    /\ dbAtBegin = [c \in Procs |-> <<>>]

\* main up to conn.transaction(): a new run starts, counters at zero.
Begin(c) ==
    /\ pc[c] = "idle"
    /\ runs < MaxRuns
    /\ runs' = runs + 1
    /\ \E began \in BOOLEAN :
         /\ pc' = [pc EXCEPT ![c] = IF began THEN "loop" ELSE "idle"]
         /\ result' = [result EXCEPT ![c] = IF began THEN "none" ELSE "err"]
    /\ pending' = [pending EXCEPT ![c] = <<>>]
    /\ cur' = [cur EXCEPT ![c] = NoSample]
    /\ rows_read' = [rows_read EXCEPT ![c] = 0]
    /\ total_sample' = [total_sample EXCEPT ![c] = 0]
    /\ errors' = [errors EXCEPT ![c] = 0]
    /\ skip' = [skip EXCEPT ![c] = 0]
    /\ outcomes' = [outcomes EXCEPT ![c] = <<>>]
    /\ trend' = [trend EXCEPT ![c] = <<>>]
    /\ dbAtBegin' = [dbAtBegin EXCEPT ![c] = db]
    /\ UNCHANGED <<s, parsed, db, lock, everTrue>>

\* The reader is exhausted: the for loop ends.
EndOfInput(c) ==
    /\ pc[c] = "loop"
    /\ pc' = [pc EXCEPT ![c] = "commit"]
    /\ cur' = [cur EXCEPT ![c] = NoSample]
    /\ UNCHANGED <<s, parsed, db, result, lock, pending, rows_read, total_sample,
                   errors, skip, outcomes, trend, runs, everTrue, dbAtBegin>>

\* Variant: the rows are taken up to the first that fails to parse
\* (map_while(|r| r.ok()) in place of filter_map).
PullUntilError(c, lines, clock) ==
    /\ pc[c] = "loop"
    /\ rows_read[c] < MaxBatch
    /\ rows_read' = [rows_read EXCEPT ![c] = @ + 1]
    /\ \E raw \in lines :
         LET row == ParseRow(raw)
         IN  IF ~row.ok
             THEN \* the first Err ends the iterator
                  /\ outcomes' = [outcomes EXCEPT ![c] = Append(@, "parse_error")]
                  /\ cur' = [cur EXCEPT ![c] = NoSample]
                  /\ pc' = [pc EXCEPT ![c] = "commit"]
                  /\ UNCHANGED <<total_sample, errors>>
             ELSE /\ total_sample' = [total_sample EXCEPT ![c] = @ + 1]
                  /\ \E now \in clock :
                       LET ts == TryUnixTimestamp(now)
                       IN  IF ~ts.ok
                           THEN /\ errors' = [errors EXCEPT ![c] = @ + 1]
                                /\ outcomes' =
                                     [outcomes EXCEPT ![c] = Append(@, "conversion_error")]
                                /\ cur' = [cur EXCEPT ![c] = NoSample]
                                /\ UNCHANGED pc
                           ELSE /\ cur' = [cur EXCEPT ![c] = Sample(row, ts.secs)]
                                /\ pc' = [pc EXCEPT ![c] = "select"]
                                /\ UNCHANGED <<errors, outcomes>>
    /\ UNCHANGED <<s, parsed, db, result, lock, pending, skip, trend, runs, everTrue,
                   dbAtBegin>>

\* One data row is pulled through parse_data, filter_map(|r| r.ok()) and
\* try_into, up to the call of insert_wastewater_sample.
Pull(c, lines, clock) ==
    /\ pc[c] = "loop"
    /\ rows_read[c] < MaxBatch
    /\ rows_read' = [rows_read EXCEPT ![c] = @ + 1]
    /\ \E raw \in lines :
         LET row == ParseRow(raw)
         IN  IF ~row.ok
             THEN \* dropped by filter_map before the batch sees it
                  /\ outcomes' = [outcomes EXCEPT ![c] = Append(@, "parse_error")]
                  /\ cur' = [cur EXCEPT ![c] = NoSample]
                  /\ UNCHANGED <<pc, total_sample, errors>>
             ELSE /\ total_sample' = [total_sample EXCEPT ![c] = @ + 1]
                  /\ \E now \in clock :
                       LET ts == TryUnixTimestamp(now)
                       IN  IF ~ts.ok
                           THEN /\ errors' = [errors EXCEPT ![c] = @ + 1]
                                /\ outcomes' =
                                     [outcomes EXCEPT ![c] = Append(@, "conversion_error")]
                                /\ cur' = [cur EXCEPT ![c] = NoSample]
                                /\ UNCHANGED pc
                           ELSE /\ cur' = [cur EXCEPT ![c] = Sample(row, ts.secs)]
                                /\ pc' = [pc EXCEPT ![c] = "select"]
                                /\ UNCHANGED <<errors, outcomes>>
    /\ UNCHANGED <<s, parsed, db, result, lock, pending, skip, trend, runs, everTrue,
                   dbAtBegin>>

\* Variant: the Some arm overwrites the stored row with the new sample.
SelectUpsert(c) ==
    /\ pc[c] = "select"
    /\ lock' = [lock EXCEPT ![c] = LockAfterSelect(@)]
    /\ IF Len(SelectSample(View(c), cur[c])) > 0
       THEN /\ skip' = [skip EXCEPT ![c] = @ + 1]
            /\ outcomes' = [outcomes EXCEPT ![c] = Append(@, "skipped")]
            /\ pc' = [pc EXCEPT ![c] = "loop"]
            /\ db' = [i \in 1..Len(db) |->
                        IF SameSample(db[i], cur[c]) THEN cur[c] ELSE db[i]]
       ELSE /\ pc' = [pc EXCEPT ![c] = "insert"]
            /\ UNCHANGED <<skip, outcomes, db>>
    /\ UNCHANGED <<s, parsed, result, pending, cur, rows_read,
                   total_sample, errors, trend, runs, everTrue, dbAtBegin>>

\* insert_wastewater_sample up to the match: the SELECT, and the Some arm.
Select(c) ==
    /\ pc[c] = "select"
    /\ lock' = [lock EXCEPT ![c] = LockAfterSelect(@)]
    /\ IF Len(SelectSample(View(c), cur[c])) > 0
       THEN /\ skip' = [skip EXCEPT ![c] = @ + 1]
            /\ outcomes' = [outcomes EXCEPT ![c] = Append(@, "skipped")]
            /\ pc' = [pc EXCEPT ![c] = "loop"]
       ELSE /\ pc' = [pc EXCEPT ![c] = "insert"]
            /\ UNCHANGED <<skip, outcomes>>
    /\ UNCHANGED <<s, parsed, db, result, pending, cur, rows_read, total_sample,
                   errors, trend, runs, everTrue, dbAtBegin>>

\* Variant: the statement is INSERT OR IGNORE and the row is turned away;
\* the call still returns true.
InsertIgnored(c) ==
    /\ pc[c] = "insert"
    /\ CanReserve(c)
    /\ lock' = [lock EXCEPT ![c] = "reserved"]
    /\ outcomes' = [outcomes EXCEPT ![c] = Append(@, "inserted")]
    /\ everTrue' = everTrue \cup {KeyOf(cur[c])}
    /\ cur' = [cur EXCEPT ![c] = NoSample]
    /\ pc' = [pc EXCEPT ![c] = "loop"]
    /\ UNCHANGED <<s, parsed, db, result, pending, rows_read, total_sample, errors,
                   skip, trend, runs, dbAtBegin>>

\* The None arm: the INSERT succeeds and the call returns true.
Insert(c) ==
    /\ pc[c] = "insert"
    /\ CanReserve(c)
    /\ lock' = [lock EXCEPT ![c] = "reserved"]
    /\ pending' = [pending EXCEPT ![c] = Append(@, cur[c])]
    /\ outcomes' = [outcomes EXCEPT ![c] = Append(@, "inserted")]
    /\ everTrue' = everTrue \cup {KeyOf(cur[c])}
    /\ UNCHANGED runs
    /\ cur' = [cur EXCEPT ![c] = NoSample]
    /\ pc' = [pc EXCEPT ![c] = "loop"]
    /\ UNCHANGED <<s, parsed, db, result, rows_read, total_sample, errors, skip,
                   trend, dbAtBegin>>

\* A statement of the batch fails (I/O error, or SQLITE_BUSY from a lock
\* it cannot get): `?` returns the error and the transaction is dropped.
StorageFailure(c) ==
    /\ pc[c] \in {"select", "insert", "commit"}
    /\ db' = RolledBack(c)
    /\ pending' = [pending EXCEPT ![c] = <<>>]
    /\ lock' = [lock EXCEPT ![c] = "none"]
    /\ cur' = [cur EXCEPT ![c] = NoSample]
    /\ pc' = [pc EXCEPT ![c] = "idle"]
    /\ result' = [result EXCEPT ![c] = "err"]
    /\ UNCHANGED <<s, parsed, rows_read, total_sample, errors, skip, outcomes,
                   trend, runs, everTrue, dbAtBegin>>

\* tx.commit() succeeds; the counts are logged.
Commit(c) ==
    /\ pc[c] = "commit"
    /\ CanCommit(c)
    /\ db' = Committed(c)
    /\ lock' = [lock EXCEPT ![c] = "none"]
    /\ pc' = [pc EXCEPT ![c] = "query"]
    /\ UNCHANGED <<s, parsed, result, pending, cur, rows_read, total_sample, errors,
                   skip, outcomes, trend, runs, everTrue, dbAtBegin>>

\* The trend queries, one db_conn.query_row per (county, variant), collected
\* into data; main then returns Ok.
Query(c) ==
    /\ pc[c] = "query"
    /\ \E data \in TrendData(db, NumPairs) : trend' = [trend EXCEPT ![c] = data]
    /\ pc' = [pc EXCEPT ![c] = "idle"]
    /\ result' = [result EXCEPT ![c] = "ok"]
    /\ UNCHANGED <<s, parsed, db, lock, pending, cur, rows_read, total_sample, errors,
                   skip, outcomes, runs, everTrue, dbAtBegin>>

Init == InitStore /\ s = NoText /\ parsed = NotParsed

\* One process, run after run.
Next ==
    \/ Begin(1)
    \/ EndOfInput(1)
    \/ Pull(1, RawRows, Clock)
    \/ Select(1)
    \/ Insert(1)
    \/ StorageFailure(1)
    \/ Commit(1)
    \/ Query(1)

Spec == Init /\ [][Next]_vars

\* Two processes on one database file.
NextShared ==
    \E c \in Procs :
        \/ Begin(c)
        \/ EndOfInput(c)
        \/ Pull(c, SharedRawRows, SharedClock)
        \/ Select(c)
        \/ Insert(c)
        \/ StorageFailure(c)
        \/ Commit(c)
        \/ Query(c)

SpecShared == Init /\ [][NextShared]_vars

----------------------------------------------------------------------------
(* Properties *)

Count(seq, tag) == Cardinality({ i \in 1..Len(seq) : seq[i] = tag })

RowsWithKey(table, k) == Cardinality({ i \in 1..Len(table) : KeyOf(table[i]) = k })

\* The batch of c has committed and its counts are logged.
Reported(c) == pc[c] = "query" \/ result[c] = "ok"

\* C1: no two persisted rows have the same five-field natural key, whatever
\* batches were committed or rolled back.
C1_UniqueNaturalKey ==
    \A i, j \in 1..Len(db) : i # j => KeyOf(db[i]) # KeyOf(db[j])

\* C1 witness: a committed batch that was offered a duplicate, over a table
\* of several rows.
C1_Witness ==
    /\ pc[1] = "query"
    /\ skip[1] >= 1
    /\ Len(db) >= 2

\* C2 as stated: once insert_wastewater_sample has returned true for a key,
\* no later call with that key returns true.
C2_TrueOnlyOnce ==
    [][ \A c \in Procs :
          (pc[c] = "insert" /\ pc'[c] = "loop") => KeyOf(cur[c]) \notin everTrue ]_vars

\* C2 amended: a call returns true only for a key that is neither stored nor
\* written by the open transaction; a call that returns for a key that is
\* stored or written by the open transaction returns false; and a commit
\* leaves exactly one row for each key the batch inserted.
C2_IdempotentUnlessRolledBack ==
    [][ \A c \in Procs :
          /\ (pc[c] = "insert" /\ pc'[c] = "loop")
                => KeyOf(cur[c]) \notin KeysOf(db) \cup KeysOf(pending[c])
          /\ ( /\ pc[c] = "select"
               /\ pc'[c] \in {"loop", "insert"}
               /\ KeyOf(cur[c]) \in KeysOf(db) \cup KeysOf(pending[c]) )
                => /\ outcomes'[c] = Append(outcomes[c], "skipped")
                   /\ pc'[c] = "loop"
          /\ (pc[c] = "commit" /\ pc'[c] = "query")
                => \A k \in KeysOf(pending[c]) : RowsWithKey(db', k) = 1 ]_vars

\* C2 witness: the second run was offered a sample whose key the first run
\* stored, and skipped it.
C2_Witness ==
    /\ runs = 2
    /\ pc[1] = "loop"
    /\ outcomes[1] = <<"skipped">>
    /\ KeyOf(cur[1]) \in KeysOf(dbAtBegin[1])
    /\ KeyOf(cur[1]) \in everTrue
    /\ RowsWithKey(db, KeyOf(cur[1])) = 1

\* C3: a sample whose key is stored is skipped and nothing is written, and a
\* committed row is never modified or deleted by a later step.
C3_KeepFirst ==
    [][ /\ Len(db') >= Len(db)
        /\ \A i \in 1..Len(db) : db'[i] = db[i]
        /\ \A c \in Procs :
             ( /\ pc[c] = "select"
               /\ pc'[c] \in {"loop", "insert"}
               /\ KeyOf(cur[c]) \in KeysOf(db) )
                => /\ outcomes'[c] = Append(outcomes[c], "skipped")
                   /\ pending'[c] = pending[c]
                   /\ db' = db ]_vars

\* C3 witness: a sample was skipped whose concentration, update time and poll
\* timestamp all differ from the stored row of its key.
C3_Witness ==
    /\ pc[1] = "loop"
    /\ Len(outcomes[1]) >= 1
    /\ outcomes[1][Len(outcomes[1])] = "skipped"
    /\ \E i \in 1..Len(db) :
         /\ KeyOf(db[i]) = KeyOf(cur[1])
         /\ db[i].normalized_pathogen_concentration
              # cur[1].normalized_pathogen_concentration
         /\ db[i].date_updated # cur[1].date_updated
         /\ db[i].poll_timestamp # cur[1].poll_timestamp

\* C4: when a run ends with a storage error, the table is what it was when
\* the batch began.
C4_RollbackOnError ==
    \A c \in Procs :
        (pc[c] = "idle" /\ result[c] = "err") => db = dbAtBegin[c]

\* C4 witness: a batch failed after two of its rows were inserted, over a
\* table that already held a row.
C4_Witness ==
    /\ pc[1] = "idle"
    /\ result[1] = "err"
    /\ Count(outcomes[1], "inserted") >= 2
    /\ Len(db) >= 1

\* C5: two batches never both commit a row for one key, and the table never
\* holds two rows of one key.
C5_OneWriterPerKey ==
    /\ \A i, j \in 1..Len(db) : i # j => KeyOf(db[i]) # KeyOf(db[j])
    /\ \A c, d \in Procs :
         (c # d /\ Reported(c) /\ Reported(d))
            => KeysOf(pending[c]) \cap KeysOf(pending[d]) = {}

\* C5 witness: one batch has inserted a key and not yet committed, and the
\* other has looked the same key up, found it absent and is about to insert.
C5_Witness ==
    /\ pc[1] = "commit"
    /\ lock[1] = "reserved"
    /\ pc[2] = "insert"
    /\ lock[2] = "shared"
    /\ KeyOf(cur[2]) \in KeysOf(pending[1])

\* C6: for a committed batch, inserted + skipped + failed = total, where
\* total counts the elements the batch was handed, failed the conversion
\* errors, skipped the samples found stored, and inserted the rows written.
C6_CountsAddUp ==
    \A c \in Procs :
        Reported(c) =>
            /\ TotalInsertions(c) >= 0
            /\ TotalInsertions(c) + skip[c] + errors[c] = total_sample[c]
            /\ total_sample[c] = Len(outcomes[c]) - Count(outcomes[c], "parse_error")
            /\ errors[c] = Count(outcomes[c], "conversion_error")
            /\ skip[c] = Count(outcomes[c], "skipped")
            /\ TotalInsertions(c) = Len(pending[c])
            /\ TotalInsertions(c) = Len(db) - Len(dbAtBegin[c])

\* C6 witness: a committed batch with a conversion failure, a duplicate and
\* an insertion.
C6_Witness ==
    /\ pc[1] = "query"
    /\ errors[1] = 1
    /\ skip[1] = 1
    /\ TotalInsertions(1) = 1
    /\ total_sample[1] = 3

\* C7: a conversion error is counted and the loop goes on with nothing
\* written or lost, and the commit persists every sample the batch inserted.
C7_ConversionErrorTolerated ==
    [][ \A c \in Procs :
          /\ outcomes'[c] = Append(outcomes[c], "conversion_error")
                => /\ pc'[c] = "loop"
                   /\ errors'[c] = errors[c] + 1
                   /\ pending'[c] = pending[c]
                   /\ result'[c] = result[c]
                   /\ db' = db
          /\ (pc[c] = "commit" /\ pc'[c] = "query")
                => db' = db \o pending[c] ]_vars

\* C7 witness: a committed batch whose conversion error stood between two
\* inserted samples.
C7_Witness ==
    /\ pc[1] = "query"
    /\ outcomes[1] = <<"inserted", "conversion_error", "inserted">>
    /\ Len(db) - Len(dbAtBegin[1]) = 2

\* C8 as stated: a run in which the clock could not be read never goes on to
\* commit and report.
C8_ClockErrorIsFatal ==
    \A c \in Procs :
        Count(outcomes[c], "conversion_error") > 0 => ~Reported(c)

\* C9 as stated: the reported failures count every data row that failed to
\* parse or to convert, and the reported total is the number of data rows.
C9_NoRowDroppedFromReport ==
    \A c \in Procs :
        Reported(c) =>
            /\ errors[c] = Count(outcomes[c], "parse_error")
                             + Count(outcomes[c], "conversion_error")
            /\ total_sample[c] = rows_read[c]

\* The rows the lines of the input parse to.
ParsedRows == { ParseRow(raw) : raw \in { r \in RawRows : ParseRow(r).ok } }

\* C14: when a data row is pulled from the reader every earlier row has left
\* exactly one outcome, in input order; a row that fails to parse leaves the
\* loop running with nothing written or ended; and every row that parses,
\* whatever came before it, is handed to the batch (counted in total_sample),
\* and is looked up in the store, as the sample it parsed to, unless its
\* conversion fails.
C14_ParseErrorDoesNotEndInput ==
    [][ \A c \in Procs :
          /\ rows_read'[c] = rows_read[c] + 1
                => /\ pc[c] = "loop"
                   /\ Len(outcomes[c]) = rows_read[c]
                   /\ IF outcomes'[c] = Append(outcomes[c], "parse_error")
                      THEN /\ pc'[c] = "loop"
                           /\ total_sample'[c] = total_sample[c]
                           /\ result'[c] = result[c]
                           /\ pending'[c] = pending[c]
                           /\ db' = db
                      ELSE /\ total_sample'[c] = total_sample[c] + 1
                           /\ \/ outcomes'[c] = Append(outcomes[c], "conversion_error")
                              \/ /\ pc'[c] = "select"
                                 /\ cur'[c].poll_timestamp >= 0
                                 /\ \E row \in ParsedRows :
                                      cur'[c] = Sample(row, cur'[c].poll_timestamp) ]_vars

\* C14 witness: a committed batch whose first row failed to parse and whose
\* two later rows were both inserted.
C14_Witness ==
    /\ pc[1] = "query"
    /\ outcomes[1] = <<"parse_error", "inserted", "inserted">>
    /\ total_sample[1] = 2
    /\ Len(db) - Len(dbAtBegin[1]) = 2

\* C16 as stated: in one run, a sample normalized later never carries a
\* smaller poll_timestamp than one normalized earlier (read off the rows the
\* run has written, which stand in normalization order).
C16_PollTimestampNonDecreasing ==
    \A c \in Procs :
        \A i, j \in 1..Len(pending[c]) :
            i < j => pending[c][i].poll_timestamp <= pending[c][j].poll_timestamp

\* The rows of the table that the filter of pair i selects, by position.
MatchingAt(table, i) ==
    { j \in 1..Len(table) :
        /\ table[j].county = PairAt(i)[1]
        /\ table[j].pcr_pathogen_target = PairAt(i)[2] }

\* The run of c has collected its trend data (and, with one process, the
\* table is still the one it queried).
Queried(c) == Len(trend[c]) = NumPairs

C13_LatestAndPrevious ==
    \A c \in Procs :
        Queried(c) =>
            \A i \in 1..NumPairs :
                LET idx == MatchingAt(db, i)
                    r == trend[c][i]
                IN  Cardinality(idx) >= 2 =>
                      \E a \in idx : \E b \in idx \ {a} :
                        /\ \A k \in idx :
                             db[k].sample_collection_date <= db[a].sample_collection_date
                        /\ \A k \in idx \ {a} :
                             db[k].sample_collection_date <= db[b].sample_collection_date
                        /\ r.latest_value = db[a].normalized_pathogen_concentration
                        /\ r.latest_date = db[a].sample_collection_date
                        /\ r.previous_date = << db[b].sample_collection_date >>
                        /\ r.difference =
                             << db[a].normalized_pathogen_concentration
                                - db[b].normalized_pathogen_concentration >>

\* C13 witness: three stored rows of two dates and two concentrations match
\* one pair; the query took the two rows of the later date as latest and
\* previous and gave a difference that is not zero.
C13_Witness ==
    /\ Queried(1)
    /\ \E i \in 1..NumPairs :
         /\ Cardinality(MatchingAt(db, i)) = 3
         /\ \E j \in MatchingAt(db, i) : db[j].sample_collection_date = 1
         /\ trend[1][i].difference = <<2>>
         /\ trend[1][i].latest_date = 2
         /\ trend[1][i].previous_date = <<2>>

\* C15 as stated: two evaluations of the trend query on the same stored
\* table (two runs that both queried the table as it stands) return the
\* same latest row, previous row and difference for every pair.
C15_SameTableSameTrend ==
    \A c, d \in Procs :
        ( /\ Queried(c) /\ db = dbAtBegin[c] \o pending[c]
          /\ Queried(d) /\ db = dbAtBegin[d] \o pending[d] )
            => trend[c] = trend[d]

\* C17: a sample whose key is not stored but was written earlier by the
\* same batch is skipped and counted, the earlier write stays as it is, and
\* the commit stores the batch's writes unchanged, one row per key.
C17_BatchDuplicateSkipped ==
    [][ \A c \in Procs :
          /\ ( /\ pc[c] = "select"
               /\ pc'[c] \in {"loop", "insert"}
               /\ KeyOf(cur[c]) \in KeysOf(pending[c])
               /\ KeyOf(cur[c]) \notin KeysOf(db) )
                => /\ pc'[c] = "loop"
                   /\ skip'[c] = skip[c] + 1
                   /\ outcomes'[c] = Append(outcomes[c], "skipped")
                   /\ pending'[c] = pending[c]
          /\ (pc[c] = "commit" /\ pc'[c] = "query")
                => \A i \in 1..Len(pending[c]) :
                     /\ \A j \in 1..Len(pending[c]) :
                          i # j => KeyOf(pending[c][i]) # KeyOf(pending[c][j])
                     /\ \E k \in 1..Len(db') : db'[k] = pending[c][i]
                     /\ RowsWithKey(db', KeyOf(pending[c][i])) = 1 ]_vars

\* C17 witness: over an empty table the batch inserted a sample and then
\* skipped a second one of the same key whose concentration and update time
\* differ; the first one's values are what the transaction holds.
C17_Witness ==
    /\ pc[1] = "loop"
    /\ db = <<>>
    /\ outcomes[1] = <<"inserted", "skipped">>
    /\ Len(pending[1]) = 1
    /\ KeyOf(cur[1]) = KeyOf(pending[1][1])
    /\ cur[1].normalized_pathogen_concentration
         # pending[1][1].normalized_pathogen_concentration
    /\ cur[1].date_updated # pending[1][1].date_updated

\* The batch of c is under way before and after the step.
InBatch(c) ==
    /\ pc[c] \in {"loop", "select", "insert"}
    /\ pc'[c] \in {"loop", "select", "insert", "commit"}

\* C18: the commit leaves the table longer by total_sample - errors - skip
\* rows, with the keys it had when the batch began and the keys the batch
\* wrote; and the keys the batch wrote are those of its converted samples:
\* every sample that comes back from insert_wastewater_sample has its key
\* among the stored or the written ones, only such samples are written, and
\* no step of the batch before the commit loses a row.
C18_CommitAddsInsertedKeys ==
    [][ \A c \in Procs :
          /\ (pc[c] = "commit" /\ pc'[c] = "query")
                => /\ Len(db') = Len(dbAtBegin[c]) + TotalInsertions(c)
                   /\ KeysOf(db') = KeysOf(dbAtBegin[c]) \cup KeysOf(pending[c])
          /\ (pc[c] \in {"select", "insert"} /\ pc'[c] = "loop")
                => KeyOf(cur[c]) \in KeysOf(dbAtBegin[c]) \cup KeysOf(pending'[c])
          /\ (InBatch(c) /\ pending'[c] # pending[c])
                => /\ pc[c] = "insert"
                   /\ pending'[c] = Append(pending[c], cur[c])
          /\ InBatch(c) => db' = dbAtBegin[c] ]_vars

\* C18 witness: a batch over a table of one row has committed after skipping
\* one sample and inserting two; the table holds three rows.
C18_Witness ==
    /\ pc[1] = "query"
    /\ Len(dbAtBegin[1]) = 1
    /\ skip[1] = 1
    /\ TotalInsertions(1) = 2
    /\ Len(db) = 3
    /\ KeysOf(db) # KeysOf(dbAtBegin[1])

\* C19: a failed batch leaves nothing behind.  The failure puts the table
\* back to what it was when the batch began, with no write pending and no
\* lock held; the run that follows it starts from that same table with its
\* counts at zero, as a first run against it would; and it skips a sample
\* only for a key stored before the batch or written by this very attempt.
C19_NoResidue ==
    [][ \A c \in Procs :
          /\ (pc[c] \in {"select", "insert", "commit"} /\ pc'[c] = "idle")
                => /\ db' = dbAtBegin[c]
                   /\ pending'[c] = <<>>
                   /\ lock'[c] = "none"
          /\ (pc[c] = "idle" /\ result[c] = "err" /\ pc'[c] = "loop")
                => /\ dbAtBegin'[c] = dbAtBegin[c]
                   /\ db' = dbAtBegin[c]
                   /\ pending'[c] = <<>>
                   /\ lock'[c] = "none"
                   /\ total_sample'[c] = 0
                   /\ errors'[c] = 0
                   /\ skip'[c] = 0
          /\ (pc[c] = "select" /\ pc'[c] = "loop")
                => KeyOf(cur[c]) \in KeysOf(dbAtBegin[c]) \cup KeysOf(pending[c]) ]_vars

\* C19 witness: the second run, having written nothing yet, has looked up a
\* sample whose key an earlier, rolled-back attempt had inserted, and found
\* it absent.
C19_Witness ==
    /\ runs = 2
    /\ pc[1] = "insert"
    /\ outcomes[1] = <<>>
    /\ pending[1] = <<>>
    /\ db = <<>>
    /\ KeyOf(cur[1]) \in everTrue

----------------------------------------------------------------------------
(* The timestamp parser on its own *)

InitPdt ==
    /\ s \in Texts
    /\ parsed = NotParsed

ParseText ==
    /\ parsed = NotParsed
    /\ parsed' = DeserializePdtDatetime(s)
    /\ UNCHANGED s

InitParse == InitPdt /\ InitStore

NextParse == ParseText /\ UNCHANGED storeVars

SpecParse == InitParse /\ [][NextParse]_vars

\* The instants at which the zone shows a civil time.
InstantsOf(local) == { u \in -20..(MaxLocal + 20) : UtcToLocal(u) = local }

\* C10: a well-formed text whose civil time exists resolves to an instant at
\* which the zone shows that civil time, and to the latest such instant.
C10_LaterInstant ==
    (parsed # NotParsed /\ s.well_formed /\ InstantsOf(s.naive) # {})
        => /\ parsed.ok
           /\ parsed.instant \in InstantsOf(s.naive)
           /\ \A u \in InstantsOf(s.naive) : u <= parsed.instant

\* C10 witness: a civil time of the fall-back fold has been parsed.
C10_Witness ==
    /\ parsed.ok
    /\ Cardinality(InstantsOf(s.naive)) = 2

\* C11: a well-formed text whose civil time the zone never shows (it lies in
\* the spring-forward gap) is refused with the invalid-for-Pacific error that
\* carries the text itself, no instant comes out of it, and a CSV line with
\* that text in the updated field yields no row.
C11_GapIsRefused ==
    (parsed # NotParsed /\ s.well_formed /\ InstantsOf(s.naive) = {})
        => /\ ~parsed.ok
           /\ parsed = ErrInvalidForPacific(s)
           /\ parsed.text = s
           /\ \A k \in Keys :
                ~ParseRow([well_formed |-> TRUE, key |-> k, conc |-> 1,
                           updated |-> s]).ok

\* C11 witness: a text of the spring-forward gap has been parsed and refused.
C11_Witness ==
    /\ parsed # NotParsed
    /\ s.well_formed
    /\ InstantsOf(s.naive) = {}
    /\ LocalSpanContains(1, s.naive - 1)
    /\ LocalSpanContains(2, s.naive + 2)
    /\ ~parsed.ok

====
